---- MODULE Spec2Model ----
(***************************************************************************)
(* Model of the quote-anchoring and highlight-lifecycle engine             *)
(* (class ClauseHighlighter, src/src/content/highlighter.js).              *)
(*                                                                         *)
(* Text is a sequence of characters; a character is a one-letter string,   *)
(* or a named code point for the non-ASCII ones (NBSP, LOWQUOTE, ...).     *)
(* The document is a tree of element and text nodes held in `dom`.         *)
(***************************************************************************)
EXTENDS Integers, Sequences, FiniteSets, TLC

\* ------------------------------------------------------------------------
\* Characters and strings
\* ------------------------------------------------------------------------

\* The sequence f as an explicit tuple.
Tuple(f) == f \o << >>

\* A string literal as a sequence of one-letter strings.
Chars(s) == Tuple([i \in 1..Len(s) |-> SubSeq(s, i, i)])

NBSP == "NBSP"          \* U+00A0
LOWQUOTE == "LOWQUOTE"  \* U+201E
LAQUO == "LAQUO"        \* U+00AB
RAQUO == "RAQUO"        \* U+00BB
ENDASH == "ENDASH"      \* U+2013
EMDASH == "EMDASH"      \* U+2014
HBAR == "HBAR"          \* U+2015
HELLIP == "HELLIP"      \* U+2026
CURLYQUOTE == "CURLYQUOTE"  \* U+201C, not in the quote class of the source

\* String.prototype.toLowerCase on one character.
UpperLetters == Chars("ABCDEFGHIJKLMNOPQRSTUVWXYZ")
LowerLetters == Chars("abcdefghijklmnopqrstuvwxyz")
UpperSet == {UpperLetters[i] : i \in 1..26}
LowerOf == [c \in UpperSet |-> LowerLetters[CHOOSE i \in 1..26 : UpperLetters[i] = c]]
toLowerCaseChar(c) == IF c \in UpperSet THEN LowerOf[c] ELSE c
toLowerCase(s) == Tuple([i \in 1..Len(s) |-> toLowerCaseChar(s[i])])

\* The characters the regular-expression class \s matches.
IsSpaceChar(c) == c \in {" ", "\t", "\n", "\r", NBSP}

\* replace(/\s+/g, ' '): every maximal run of whitespace becomes one space.
collapseWhitespace(s) ==
    LET keep == SelectSeq([i \in 1..Len(s) |-> i],
                          LAMBDA i : ~(IsSpaceChar(s[i]) /\ i > 1 /\ IsSpaceChar(s[i - 1])))
    IN  Tuple([k \in 1..Len(keep) |-> IF IsSpaceChar(s[keep[k]]) THEN " " ELSE s[keep[k]]])

\* Replacements in which an en dash becomes an em dash instead of "-".
replaceCharShifted(c) ==
    IF c \in {"\"", "'", LOWQUOTE, LAQUO, RAQUO} THEN <<"\"">>
    ELSE IF c = ENDASH THEN <<EMDASH>>
    ELSE IF c \in {EMDASH, HBAR} THEN <<"-">>
    ELSE IF c = HELLIP THEN <<".", ".", ".">>
    ELSE IF c \in {NBSP, "\r", "\n"} THEN <<" ">>
    ELSE <<c>>

\* The character-class replacements of normalizeText, one character at a time.
replaceChar(c) ==
    IF c \in {"\"", "'", LOWQUOTE, LAQUO, RAQUO} THEN <<"\"">>
    ELSE IF c \in {ENDASH, EMDASH, HBAR} THEN <<"-">>
    ELSE IF c = HELLIP THEN <<".", ".", ".">>
    ELSE IF c \in {NBSP, "\r", "\n"} THEN <<" ">>
    ELSE <<c>>

RECURSIVE replaceAll(_)
replaceAll(s) ==
    IF s = << >> THEN << >>
    ELSE IF Len(s) = 1 THEN replaceChar(s[1])
    ELSE LET half == Len(s) \div 2
         IN  replaceAll(SubSeq(s, 1, half)) \o replaceAll(SubSeq(s, half + 1, Len(s)))

\* String.prototype.trim.
trim(s) ==
    IF \A i \in 1..Len(s) : IsSpaceChar(s[i]) THEN << >>
    ELSE LET lead == CHOOSE k \in 0..Len(s) :
                        /\ ~IsSpaceChar(s[k + 1])
                        /\ \A j \in 1..k : IsSpaceChar(s[j])
             trail == CHOOSE k \in 0..Len(s) :
                        /\ ~IsSpaceChar(s[Len(s) - k])
                        /\ \A j \in 0..(k - 1) : IsSpaceChar(s[Len(s) - j])
         IN  SubSeq(s, lead + 1, Len(s) - trail)

normalizeText(text) == trim(replaceAll(collapseWhitespace(toLowerCase(text))))

\* String.prototype.indexOf, 0-based, -1 when absent.
IsAt(hay, needle, i) ==
    /\ i + Len(needle) <= Len(hay)
    /\ \A k \in 1..Len(needle) : hay[i + k] = needle[k]
indexOf(hay, needle) ==
    LET hits == {i \in 0..(Len(hay) - Len(needle)) : IsAt(hay, needle, i)} IN
    IF hits = {} THEN -1 ELSE CHOOSE i \in hits : \A j \in hits : i <= j

\* String.prototype.substring(from, to) with 0-based, clamped arguments.
Min(a, b) == IF a < b THEN a ELSE b
Max(a, b) == IF a > b THEN a ELSE b
substring(s, from, to) ==
    SubSeq(s, Min(Max(from, 0), Len(s)) + 1, Min(Max(to, 0), Len(s)))

\* String.prototype.split(' '): the pieces between single spaces.
split(s) ==
    LET sp == SelectSeq([i \in 1..Len(s) |-> i], LAMBDA i : s[i] = " ")
        from(k) == IF k = 1 THEN 1 ELSE sp[k - 1] + 1
        to(k) == IF k = Len(sp) + 1 THEN Len(s) ELSE sp[k] - 1
    IN  Tuple([k \in 1..(Len(sp) + 1) |-> SubSeq(s, from(k), to(k))])

\* Array.prototype.join(sep).
RECURSIVE join(_, _)
join(ws, sep) ==
    IF ws = << >> THEN << >>
    ELSE IF Len(ws) = 1 THEN ws[1]
    ELSE LET half == Len(ws) \div 2
         IN  join(SubSeq(ws, 1, half), sep) \o sep \o join(SubSeq(ws, half + 1, Len(ws)), sep)

\* Array.prototype.slice(from, to) with 0-based arguments.
slice(ws, from, to) == SubSeq(ws, from + 1, Min(to, Len(ws)))

\* ------------------------------------------------------------------------
\* The document: nodes are numbered in creation order, dom[n] is node n.
\* Node 1 is document.body.  parent = 0 means "no parent" (detached).
\* ------------------------------------------------------------------------

Body == 1
highlightClass == "privacy-parser-highlight"
fadeClass == "privacy-parser-highlight-fade"

\* An element node; `marker` is the attribute data-privacy-parser="highlight".
Element(tag, parent, kids, display, visibility, opacity) ==
    [kind |-> "element", tag |-> tag, parent |-> parent, kids |-> kids,
     data |-> << >>, classes |-> {}, marker |-> FALSE,
     display |-> display, visibility |-> visibility, opacity |-> opacity]
\* A visible element with default style.
El(tag, parent, kids) == Element(tag, parent, kids, "block", "inherit", "1")
\* A text node.
Text(parent, data) ==
    [kind |-> "text", tag |-> "#text", parent |-> parent, kids |-> << >>,
     data |-> data, classes |-> {}, marker |-> FALSE,
     display |-> "inline", visibility |-> "inherit", opacity |-> "1"]

\* Node.textContent: the data of the text-node descendants, in document order.
RECURSIVE textContent(_, _)
RECURSIVE textContentOfKids(_, _)
textContent(d, n) ==
    IF d[n].kind = "text" THEN d[n].data ELSE textContentOfKids(d, d[n].kids)
textContentOfKids(d, ks) ==
    IF ks = << >> THEN << >>
    ELSE textContent(d, Head(ks)) \o textContentOfKids(d, Tail(ks))

\* The text nodes below n in document order (TreeWalker with SHOW_TEXT).
RECURSIVE textNodesUnder(_, _)
RECURSIVE textNodesUnderKids(_, _)
textNodesUnder(d, n) ==
    IF d[n].kind = "text" THEN <<n>> ELSE textNodesUnderKids(d, d[n].kids)
textNodesUnderKids(d, ks) ==
    IF ks = << >> THEN << >>
    ELSE textNodesUnder(d, Head(ks)) \o textNodesUnderKids(d, Tail(ks))

\* getComputedStyle(e).visibility: visibility is an inherited property.
RECURSIVE computedVisibility(_, _)
computedVisibility(d, e) ==
    IF d[e].visibility # "inherit" THEN d[e].visibility
    ELSE IF d[e].parent = 0 THEN "visible"
    ELSE computedVisibility(d, d[e].parent)

\* The acceptNode filter of buildPageText's TreeWalker.
NonContentTags == {"script", "style", "noscript", "iframe", "svg"}
acceptNode(d, n) ==
    LET parent == d[n].parent IN
    /\ parent # 0
    /\ d[parent].tag \notin NonContentTags
    /\ ~ \/ d[parent].display = "none"
         \/ computedVisibility(d, parent) = "hidden"
         \/ d[parent].opacity = "0"

\* buildPageText: the accepted text nodes with non-blank text, the buffer
\* (each node's normalized text followed by one space) and the node map.
textNodesOf(d) ==
    LET accepted == SelectSeq(textNodesUnder(d, Body), LAMBDA n : acceptNode(d, n))
    IN  SelectSeq(accepted, LAMBDA n : Len(trim(d[n].data)) > 0)

\* A buffer loop that appends each node's text without the separator.
RECURSIVE buildFromFused(_, _, _, _)
buildFromFused(d, ns, combinedText, nodeMap) ==
    IF ns = << >> THEN [combinedText |-> combinedText, nodeMap |-> nodeMap]
    ELSE LET normalizedText == normalizeText(d[Head(ns)].data)
             startPos == Len(combinedText)
         IN  buildFromFused(d, Tail(ns), combinedText \o normalizedText,
                            IF Len(normalizedText) > 0
                            THEN Append(nodeMap, [node |-> Head(ns), start |-> startPos,
                                                  end |-> startPos + Len(normalizedText)])
                            ELSE nodeMap)

RECURSIVE buildFrom(_, _, _, _)
buildFrom(d, ns, combinedText, nodeMap) ==
    IF ns = << >> THEN [combinedText |-> combinedText, nodeMap |-> nodeMap]
    ELSE LET normalizedText == normalizeText(d[Head(ns)].data)
             startPos == Len(combinedText)
         IN  IF Len(normalizedText) > 0
             THEN buildFrom(d, Tail(ns), combinedText \o normalizedText \o <<" ">>,
                            Append(nodeMap, [node |-> Head(ns), start |-> startPos,
                                             end |-> startPos + Len(normalizedText)]))
             ELSE buildFrom(d, Tail(ns), combinedText, nodeMap)

\* A buildPageText that indexes every accepted text node, blank or not.
RECURSIVE buildFromAll(_, _, _, _)
buildFromAll(d, ns, combinedText, nodeMap) ==
    IF ns = << >> THEN [combinedText |-> combinedText, nodeMap |-> nodeMap]
    ELSE LET normalizedText == normalizeText(d[Head(ns)].data)
             startPos == Len(combinedText)
         IN  buildFromAll(d, Tail(ns), combinedText \o normalizedText \o <<" ">>,
                          Append(nodeMap, [node |-> Head(ns), start |-> startPos,
                                           end |-> startPos + Len(normalizedText)]))
buildPageTextAll(d) ==
    buildFromAll(d, SelectSeq(textNodesUnder(d, Body), LAMBDA n : acceptNode(d, n)),
                 << >>, << >>)

buildPageText(d) == buildFrom(d, textNodesOf(d), << >>, << >>)

\* ------------------------------------------------------------------------
\* The matching strategies of findTextInPage.
\* ------------------------------------------------------------------------

stopWords ==
    { Chars(w) : w \in
      {"a", "an", "the", "and", "or", "but", "in", "on", "at", "to", "for",
       "of", "with", "by", "from", "as", "is", "are", "was", "were", "be",
       "been", "being", "have", "has", "had", "do", "does", "did", "will",
       "would", "could", "should", "may", "might", "must", "shall", "can",
       "this", "that", "these", "those", "it", "its", "we", "our", "you",
       "your", "they", "their", "which", "who", "whom", "whose", "what",
       "if", "then", "else", "when", "where", "why", "how", "all", "each",
       "every", "both", "few", "more", "most", "other", "some", "such",
       "no", "nor", "not", "only", "own", "same", "so", "than", "too",
       "very", "just", "also", "any"} }

getSignificantWords(text) ==
    SelectSeq(split(normalizeText(text)), LAMBDA w : Len(w) > 2 /\ w \notin stopWords)

\* new RegExp(flexPattern, 'i') for a window of tokens joined by \s+, over
\* the characters a normalized token can hold in this model: letters,
\* digits, '"', '-', ',' (literals), '.' (any character), '(' and ')'
\* (grouping).  flexPattern is the character sequence of the whole pattern.
WS == "\\s+"
Count(pat, c, upto) == Cardinality({i \in 1..upto : pat[i] = c})

\* The constructor throws a SyntaxError on unbalanced parentheses.
RegExpIsValid(flexPattern) ==
    \/ \A i \in 1..Len(flexPattern) : flexPattern[i] \notin {"(", ")"}
    \/ /\ \A n \in 1..Len(flexPattern) :
             Count(flexPattern, "(", n) >= Count(flexPattern, ")", n)
       /\ Count(flexPattern, "(", Len(flexPattern)) = Count(flexPattern, ")", Len(flexPattern))

\* The atoms of a token that consume a character (groups are zero-width).
atoms(token) == SelectSeq(token, LAMBDA c : c \notin {"(", ")"})

\* Whether the atoms of a token match buf at 0-based position pos.
tokenMatchesAt(buf, pos, token) ==
    LET as == atoms(token) IN
    /\ pos + Len(as) <= Len(buf)
    /\ \A k \in 1..Len(as) :
          as[k] = "." \/ toLowerCaseChar(as[k]) = toLowerCaseChar(buf[pos + k])

\* The number of whitespace characters of buf from 0-based position pos on.
spaceRun(buf, pos) ==
    LET ends == {e \in pos..Len(buf) : \A i \in (pos + 1)..e : IsSpaceChar(buf[i])}
    IN  (CHOOSE e \in ends : \A f \in ends : e >= f) - pos

\* The end of the match of tokens[k..] at 0-based position pos of buf, -1 if
\* none.  \s+ is greedy and backtracks: n is the number of spaces still to try.
RECURSIVE matchEnd(_, _, _, _)
RECURSIVE matchSpaces(_, _, _, _, _)
matchEnd(buf, pos, tokens, k) ==
    IF ~tokenMatchesAt(buf, pos, tokens[k]) THEN -1
    ELSE LET after == pos + Len(atoms(tokens[k]))
         IN  IF k = Len(tokens) THEN after
             ELSE matchSpaces(buf, after, tokens, k, spaceRun(buf, after))
matchSpaces(buf, pos, tokens, k, n) ==
    IF n < 1 THEN -1
    ELSE LET e == matchEnd(buf, pos + n, tokens, k + 1)
         IN  IF e # -1 THEN e ELSE matchSpaces(buf, pos, tokens, k, n - 1)

\* String.prototype.match(regex): the leftmost match as [index, length];
\* index -1 when there is none.
regexMatch(buf, tokens) ==
    LET hits == {i \in 0..Len(buf) : matchEnd(buf, i, tokens, 1) # -1} IN
    IF hits = {} THEN [index |-> -1, length |-> 0]
    ELSE LET i == CHOOSE h \in hits : \A g \in hits : h <= g
         IN  [index |-> i, length |-> matchEnd(buf, i, tokens, 1) - i]

NoHit(len) == [index |-> -1, length |-> len, threw |-> FALSE]
Hit(i, l) == [index |-> i, length |-> l, threw |-> FALSE]
Threw == [index |-> -1, length |-> 0, threw |-> TRUE]

\* An exact search that returns the last occurrence (lastIndexOf).
exactSearchLast(combinedText, normalizedClause) ==
    LET hits == {i \in 0..(Len(combinedText) - Len(normalizedClause)) :
                    IsAt(combinedText, normalizedClause, i)}
    IN  Hit(IF hits = {} THEN -1 ELSE CHOOSE i \in hits : \A j \in hits : i >= j,
            Len(normalizedClause))

\* case 'exact'
exactSearch(combinedText, normalizedClause) ==
    Hit(indexOf(combinedText, normalizedClause), Len(normalizedClause))

\* case 'startWords': wordCount from min(15, words) down to 5; the first
\* count whose phrase is long enough and occurs in the buffer.
startWordsMinCount == 5
startWordsMaxCount == 15
startWordsMinLength == 20
\* A startWords search that takes the shortest phrase that occurs.
startWordsShortest(combinedText, normalizedClause) ==
    LET words == split(normalizedClause)
        phrase(wordCount) == join(slice(words, 0, wordCount), <<" ">>)
        hits == {wordCount \in startWordsMinCount..Min(startWordsMaxCount, Len(words)) :
                    /\ Len(phrase(wordCount)) >= startWordsMinLength
                    /\ indexOf(combinedText, phrase(wordCount)) # -1}
    IN  IF hits = {} THEN NoHit(Len(normalizedClause))
        ELSE LET wordCount == CHOOSE h \in hits : \A g \in hits : h <= g
             IN  Hit(indexOf(combinedText, phrase(wordCount)), Len(phrase(wordCount)))

startWordsSearch(combinedText, normalizedClause) ==
    LET words == split(normalizedClause)
        phrase(wordCount) == join(slice(words, 0, wordCount), <<" ">>)
        hits == {wordCount \in startWordsMinCount..Min(startWordsMaxCount, Len(words)) :
                    /\ Len(phrase(wordCount)) >= startWordsMinLength
                    /\ indexOf(combinedText, phrase(wordCount)) # -1}
    IN  IF hits = {} THEN NoHit(Len(normalizedClause))
        ELSE LET wordCount == CHOOSE h \in hits : \A g \in hits : h >= g
             IN  Hit(indexOf(combinedText, phrase(wordCount)), Len(phrase(wordCount)))

\* The first window [count, start] in loop order (count descending, start
\* ascending) among the windows of `stops`, the windows at which the loop
\* ends.
FirstWindow(stops) ==
    CHOOSE w \in stops : \A v \in stops :
        \/ w[1] > v[1]
        \/ w[1] = v[1] /\ w[2] <= v[2]

\* case 'keyPhrase': count from min(8, sigWords) down to 3, start ascending;
\* the loop ends at the first long-enough window whose pattern does not
\* compile (the constructor throws) or matches.
keyPhraseMinCount == 3
keyPhraseMaxCount == 8
keyPhraseMinLength == 15
keyPhraseWindows(combinedText, sigWords, normalizedClause) ==
    LET window(w) == slice(sigWords, w[2], w[2] + w[1])
        windows == {w \in (keyPhraseMinCount..Min(keyPhraseMaxCount, Len(sigWords)))
                            \X (0..Len(sigWords)) : w[2] <= Len(sigWords) - w[1]}
        tried == {w \in windows : Len(join(window(w), <<" ">>)) >= keyPhraseMinLength}
        stops == {w \in tried :
                    \/ ~RegExpIsValid(join(window(w), <<WS>>))
                    \/ regexMatch(combinedText, window(w)).index # -1}
    IN  IF stops = {} THEN NoHit(Len(normalizedClause))
        ELSE LET w == FirstWindow(stops)
                 m == regexMatch(combinedText, window(w))
             IN  IF ~RegExpIsValid(join(window(w), <<WS>>)) THEN Threw
                 ELSE Hit(m.index, m.length)
keyPhraseSearch(combinedText, clauseText) ==
    keyPhraseWindows(combinedText, getSignificantWords(clauseText), normalizeText(clauseText))

\* case 'substring': len from min(12, words) down to 4, start ascending.
substringMinCount == 4
substringMaxCount == 12
substringMinLength == 20
substringSearch(combinedText, normalizedClause) ==
    LET words == split(normalizedClause)
        phrase(w) == join(slice(words, w[2], w[2] + w[1]), <<" ">>)
        windows == {w \in (substringMinCount..Min(substringMaxCount, Len(words)))
                            \X (0..Len(words)) : w[2] <= Len(words) - w[1]}
        stops == {w \in windows :
                    /\ Len(phrase(w)) >= substringMinLength
                    /\ indexOf(combinedText, phrase(w)) # -1}
    IN  IF stops = {} THEN NoHit(Len(normalizedClause))
        ELSE LET w == FirstWindow(stops)
             IN  Hit(indexOf(combinedText, phrase(w)), Len(phrase(w)))

\* What findTextInPage and findWithBrowserAPI return.
Null == [kind |-> "null"]
Thrown == [kind |-> "throw"]

\* findTextInPage(clauseText, strategy) on document d: a match record, Null,
\* or Thrown when the RegExp constructor raised.
search(combinedText, clauseText, normalizedClause, strategy) ==
    CASE strategy = "exact" -> exactSearch(combinedText, normalizedClause)
      [] strategy = "startWords" -> startWordsSearch(combinedText, normalizedClause)
      [] strategy = "keyPhrase" -> keyPhraseSearch(combinedText, clauseText)
      [] strategy = "substring" -> substringSearch(combinedText, normalizedClause)
      [] OTHER -> NoHit(Len(normalizedClause))

\* A result built without the test that some node overlaps the range.
matchFromUnchecked(combinedText, nodeMap, found, strategy) ==
    LET matchingNodes == SelectSeq(nodeMap,
                            LAMBDA nm : nm.start < found.index + found.length
                                        /\ nm.end > found.index)
    IN  IF found.threw THEN Thrown
        ELSE IF found.index = -1 THEN Null
        ELSE [kind |-> "match",
              nodes |-> Tuple([i \in 1..Len(matchingNodes) |-> matchingNodes[i].node]),
              startOffset |-> IF matchingNodes = << >> THEN 0
                              ELSE Max(0, found.index - matchingNodes[1].start),
              length |-> found.length,
              text |-> substring(combinedText, found.index, found.index + found.length),
              start |-> found.index, strategy |-> strategy]

\* The nodes of the match and the record returned, from the position found.
matchFrom(combinedText, nodeMap, found, strategy) ==
    LET matchStart == found.index
        matchLength == found.length
        matchEndPos == matchStart + matchLength
        matchingNodes == SelectSeq(nodeMap,
                            LAMBDA nm : nm.start < matchEndPos /\ nm.end > matchStart)
    IN  IF found.threw THEN Thrown
        ELSE IF matchStart = -1 THEN Null
        ELSE IF Len(matchingNodes) = 0 THEN Null
        ELSE [kind |-> "match",
              nodes |-> Tuple([i \in 1..Len(matchingNodes) |-> matchingNodes[i].node]),
              startOffset |-> Max(0, matchStart - matchingNodes[1].start),
              length |-> matchLength,
              text |-> substring(combinedText, matchStart, matchEndPos),
              start |-> matchStart, strategy |-> strategy]

findInBuffer(pageText, clauseText, normalizedClause, strategy) ==
    matchFrom(pageText.combinedText, pageText.nodeMap,
              search(pageText.combinedText, clauseText, normalizedClause, strategy), strategy)

findTextInPage(d, clauseText, strategy) ==
    findInBuffer(buildPageText(d), clauseText, normalizeText(clauseText), strategy)

\* ------------------------------------------------------------------------
\* findWithBrowserAPI: window.find and the selection it leaves.
\* ------------------------------------------------------------------------

\* Whether the browser renders node n: no display:none on the way up, no
\* non-content container, computed visibility not hidden.
RECURSIVE isRendered(_, _)
isRendered(d, n) ==
    IF n = Body THEN TRUE
    ELSE /\ d[n].parent # 0
         /\ d[n].kind = "element" =>
               /\ d[n].display # "none"
               /\ d[n].tag \notin NonContentTags
               /\ computedVisibility(d, n) # "hidden"
         /\ isRendered(d, d[n].parent)

\* The rendered text below n, whitespace-collapsed and case-folded as the
\* browser's find does.
RECURSIVE renderedNodesUnder(_, _)
RECURSIVE renderedNodesUnderKids(_, _)
renderedNodesUnder(d, n) ==
    IF ~isRendered(d, n) THEN << >>
    ELSE IF d[n].kind = "text" THEN <<n>>
    ELSE renderedNodesUnderKids(d, d[n].kids)
renderedNodesUnderKids(d, ks) ==
    IF ks = << >> THEN << >>
    ELSE renderedNodesUnder(d, Head(ks)) \o renderedNodesUnderKids(d, Tail(ks))
RECURSIVE concatData(_, _)
concatData(d, ns) ==
    IF ns = << >> THEN << >> ELSE d[Head(ns)].data \o concatData(d, Tail(ns))
renderedText(d, n) == normalizeText(concatData(d, renderedNodesUnder(d, n)))

\* The depth of node n below the body.
RECURSIVE depth(_, _)
depth(d, n) == IF n = Body \/ d[n].parent = 0 THEN 0 ELSE 1 + depth(d, d[n].parent)

\* window.find(phrase) followed by getSelection().getRangeAt(0)
\* .commonAncestorContainer, resolved to an element: the parent of the text
\* node that holds the phrase, or the deepest element whose rendered text
\* holds it; 0 when the phrase is not found.  Of several hits the first
\* created node is taken.
windowFind(d, rendered, phrase) ==
    LET holders == {n \in 1..Len(d) :
                      /\ isRendered(d, n)
                      /\ phrase # << >>
                      /\ indexOf(rendered[n], phrase) # -1}
        deepest == {n \in holders : \A m \in holders : depth(d, m) <= depth(d, n)}
    IN  IF holders = {} THEN 0
        ELSE LET container == CHOOSE n \in deepest : \A m \in deepest : n <= m
             IN  IF d[container].kind = "text" THEN d[container].parent ELSE container

browserFindMinCount == 3
browserFindMaxCount == 8
findWithBrowserAPI(d, clauseText, hasFind) ==
    LET words == split(normalizeText(clauseText))
        phrase(len) == join(slice(words, 0, len), <<" ">>)
        rendered == Tuple([n \in 1..Len(d) |-> renderedText(d, n)])
        hits == {len \in browserFindMinCount..Min(browserFindMaxCount, Len(words)) :
                    hasFind /\ windowFind(d, rendered, phrase(len)) # 0}
    IN  IF hits = {} THEN Null
        ELSE LET len == CHOOSE h \in hits : \A g \in hits : h >= g
             IN  [kind |-> "match", element |-> windowFind(d, rendered, phrase(len)),
                  useElementDirectly |-> TRUE, strategy |-> "browserFind"]

\* ------------------------------------------------------------------------
\* createHighlight and the removal callback: the document mutations.
\* ------------------------------------------------------------------------

addClass(d, e, c) == [d EXCEPT ![e].classes = @ \cup {c}]
removeClass(d, e, c) == [d EXCEPT ![e].classes = @ \ {c}]

\* The child list ks with child n replaced by the nodes of `by`.
spliceKids(ks, n, by) ==
    LET i == CHOOSE j \in 1..Len(ks) : ks[j] = n
    IN  SubSeq(ks, 1, i - 1) \o by \o SubSeq(ks, i + 1, Len(ks))

\* range.setStart(node, s); range.setEnd(node, e); range.surroundContents(wrapper)
\* on one text node: the node keeps data[0, s), the wrapper holds a new text
\* node with data[s, e) (nothing when the range is collapsed) and a new text
\* node with data[e, ..) follows the wrapper.
surroundContents(d, node, s, e) ==
    LET data == d[node].data
        parent == d[node].parent
        wrapper == Len(d) + 1
        after == Len(d) + 2
        middle == Len(d) + 3
        wrapperEl == [El("span", parent, IF s < e THEN <<middle>> ELSE << >>)
                        EXCEPT !.classes = {highlightClass}, !.marker = TRUE,
                               !.display = "inline"]
        d1 == [d EXCEPT ![node].data = SubSeq(data, 1, s),
                        ![parent].kids = spliceKids(@, node, <<node, wrapper, after>>)]
        d2 == d1 \o <<wrapperEl, Text(parent, SubSeq(data, e + 1, Len(data)))>>
    IN  IF s < e THEN d2 \o <<Text(wrapper, SubSeq(data, s + 1, e))>> ELSE d2

fallbackMinLength == 10
fallbackRatio == 3

\* The ancestor walk of the fallback path: the element that gets the class.
RECURSIVE fallbackWalk(_, _, _)
fallbackWalk(d, current, targetElement) ==
    IF current = 0 \/ current = Body THEN targetElement
    ELSE LET currentText == normalizeText(textContent(d, current))
             up == d[current].parent
         IN  IF up # 0 /\ Len(normalizeText(textContent(d, up))) > Len(currentText) * fallbackRatio
             THEN targetElement
             ELSE fallbackWalk(d, up, current)

\* A createHighlight that gives up when the range cannot be wrapped.
createHighlightNoFallback(d, match) ==
    IF "useElementDirectly" \in DOMAIN match
    THEN [dom |-> addClass(d, match.element, highlightClass), el |-> match.element]
    ELSE IF /\ Len(match.nodes) = 1
            /\ Max(0, match.startOffset) <= Len(d[match.nodes[1]].data)
    THEN [dom |-> surroundContents(d, match.nodes[1], Max(0, match.startOffset),
                                   Min(Len(d[match.nodes[1]].data),
                                       match.startOffset + match.length)),
          el |-> Len(d) + 1]
    ELSE [dom |-> d, el |-> 0]

\* createHighlight(match): the document after the call and the element
\* returned (0 for null).
createHighlight(d, match) ==
    IF "useElementDirectly" \in DOMAIN match
    THEN [dom |-> addClass(d, match.element, highlightClass), el |-> match.element]
    ELSE IF Len(match.nodes) = 0 THEN [dom |-> d, el |-> 0]
    ELSE LET firstNode == match.nodes[1]
             parent == d[firstNode].parent
             s == Max(0, match.startOffset)
             endOffset == Min(Len(d[firstNode].data), match.startOffset + match.length)
             wrappable == /\ Len(match.nodes) = 1
                          /\ d[firstNode].kind = "text"
                          /\ s <= Len(d[firstNode].data)
             targetElement ==
                 IF Len(match.text) > fallbackMinLength
                 THEN fallbackWalk(d, parent, parent) ELSE parent
         IN  IF parent = 0 THEN [dom |-> d, el |-> 0]
             ELSE IF wrappable
             THEN [dom |-> surroundContents(d, firstNode, s, endOffset), el |-> Len(d) + 1]
             ELSE [dom |-> addClass(d, targetElement, highlightClass), el |-> targetElement]

\* An unwrap that removes the wrapper together with its children.
removeWithChildren(d, element) ==
    LET parent == d[element].parent
    IN  IF parent = 0 THEN d
        ELSE [d EXCEPT ![parent].kids = spliceKids(@, element, << >>),
                       ![element].parent = 0]

\* The callback removeHighlight schedules: unwrap the wrapper or drop the
\* classes.
unwrap(d, element) ==
    LET parent == d[element].parent
        kids == d[element].kids
    IN  IF parent = 0 THEN d
        ELSE Tuple([n \in 1..Len(d) |->
                IF n = parent THEN [d[n] EXCEPT !.kids = spliceKids(@, element, kids)]
                ELSE IF n = element THEN [d[n] EXCEPT !.parent = 0, !.kids = << >>]
                ELSE IF \E i \in 1..Len(kids) : kids[i] = n THEN [d[n] EXCEPT !.parent = parent]
                ELSE d[n]])

\* A removal callback that forgets the highlight class of a styled element.
fadeDoneKeepsClass(d, element) ==
    IF d[element].marker THEN unwrap(d, element)
    ELSE removeClass(d, element, fadeClass)

fadeDone(d, element) ==
    IF d[element].marker THEN unwrap(d, element)
    ELSE removeClass(removeClass(d, element, highlightClass), element, fadeClass)

\* activeHighlights.indexOf(element) / splice(index, 1).
evict(registry, element) ==
    IF \E i \in 1..Len(registry) : registry[i] = element
    THEN LET index == CHOOSE i \in 1..Len(registry) :
                         /\ registry[i] = element
                         /\ \A j \in 1..(i - 1) : registry[j] # element
         IN  SubSeq(registry, 1, index - 1) \o SubSeq(registry, index + 1, Len(registry))
    ELSE registry

\* ------------------------------------------------------------------------
\* highlightClause up to the creation of the highlight.
\* ------------------------------------------------------------------------

minClauseLength == 10

\* A cascade that tries the startWords strategy before the exact one.
locateLeadingWordsFirst(d, clauseText, hasFind) ==
    LET startWords == findTextInPage(d, clauseText, "startWords")
    IN  IF startWords # Null THEN startWords
        ELSE LET exact == findTextInPage(d, clauseText, "exact")
             IN  IF exact # Null THEN exact
                 ELSE LET keyPhrase == findTextInPage(d, clauseText, "keyPhrase")
                      IN  IF keyPhrase # Null THEN keyPhrase
                          ELSE LET substr == findTextInPage(d, clauseText, "substring")
                               IN  IF substr # Null THEN substr
                                   ELSE findWithBrowserAPI(d, clauseText, hasFind)

\* The cascade: the first strategy that yields a match; Thrown when the
\* keyPhrase strategy raised before any later strategy ran.
orElse(match, next) == IF match # Null THEN match ELSE next
locate(d, clauseText, hasFind) ==
    orElse(findTextInPage(d, clauseText, "exact"),
    orElse(findTextInPage(d, clauseText, "startWords"),
    orElse(findTextInPage(d, clauseText, "keyPhrase"),
    orElse(findTextInPage(d, clauseText, "substring"),
           findWithBrowserAPI(d, clauseText, hasFind)))))

\* The outcome of highlightClause(clauseText) on document d: whether it
\* threw, what it returned, the document it leaves and the element it
\* highlighted (0 for none).
\* A failure path that leaves the highlight class on the body.
NoOutcomeStyled(d) ==
    [threw |-> FALSE, ret |-> FALSE, dom |-> addClass(d, Body, highlightClass), el |-> 0,
     strategy |-> "none"]
NoOutcome(d) == [threw |-> FALSE, ret |-> FALSE, dom |-> d, el |-> 0, strategy |-> "none"]
created(d, match, made) ==
    IF made.el = 0 THEN [NoOutcome(d) EXCEPT !.strategy = match.strategy]
    ELSE [threw |-> FALSE, ret |-> TRUE, dom |-> made.dom, el |-> made.el,
          strategy |-> match.strategy]
outcomeOf(d, match) ==
    IF match = Thrown THEN [NoOutcome(d) EXCEPT !.threw = TRUE, !.strategy = "keyPhrase"]
    ELSE IF match = Null THEN NoOutcome(d)
    ELSE created(d, match, createHighlight(d, match))
highlightOutcome(d, clauseText, hasFind) ==
    IF Len(clauseText) < minClauseLength THEN NoOutcome(d)
    ELSE outcomeOf(d, locate(d, clauseText, hasFind))

\* ------------------------------------------------------------------------
\* Documents the model starts from, and the quotes asked of each.
\* ------------------------------------------------------------------------

\* <body><p>We collect ... email address.</p></body>
DocPlain ==
    << El("body", 0, <<2>>),
       El("p", 1, <<3>>),
       Text(2, Chars("We collect your personal information including your name and email address.")) >>

\* <body><p>  Your   data rights\n are protected by law. </p></body>
DocSpaced ==
    << El("body", 0, <<2>>),
       El("p", 1, <<3>>),
       Text(2, Chars("  Your   data rights\n are protected by law. ")) >>

\* <body><div><p><b>Your</b> <i>data</i> <u>rights</u></p>
\*   <p>We never sell them to advertisers or data brokers.</p></div></body>
DocInline ==
    << El("body", 0, <<2>>),
       El("div", 1, <<3, 11>>),
       El("p", 2, <<4, 6, 7, 9>>),
       El("b", 3, <<5>>),
       Text(4, Chars("Your")),
       Text(3, Chars(" ")),
       El("i", 3, <<8>>),
       Text(7, Chars("data ")),
       El("u", 3, <<10>>),
       Text(9, Chars("rights")),
       El("p", 2, <<12>>),
       Text(11, Chars("We never sell them to advertisers or data brokers.")) >>

\* <body><p>We may share ... purposes only.</p></body>: a sentence of twenty
\* words, more than the fifteen the startWords strategy looks at.
DocLong ==
    << El("body", 0, <<2>>),
       El("p", 1, <<3>>),
       Text(2, Chars("We may share your personal data with our trusted advertising partners and service providers for marketing and analytics purposes only.")) >>

\* <body><div style="display:none"><p>Hidden terms ...</p></div>
\*   <p style="display:none">Secret fees ...</p>
\*   <div style="visibility:hidden"><p>Unseen clauses ...</p></div>
\*   <p style="opacity:0">Transparent wording ...</p>
\*   <p>Public rules ...</p></body>
DocHidden ==
    << El("body", 0, <<2, 5, 7, 10, 12>>),
       Element("div", 1, <<3>>, "none", "inherit", "1"),
       El("p", 2, <<4>>),
       Text(3, Chars("Hidden terms apply to your account balance.")),
       Element("p", 1, <<6>>, "none", "inherit", "1"),
       Text(5, Chars("Secret fees are charged every month.")),
       Element("div", 1, <<8>>, "block", "hidden", "1"),
       El("p", 7, <<9>>),
       Text(8, Chars("Unseen clauses bind you for two years.")),
       Element("p", 1, <<11>>, "block", "inherit", "0"),
       Text(10, Chars("Transparent wording hides the refund policy.")),
       El("p", 1, <<13>>),
       Text(12, Chars("Public rules stay listed on this page.")) >>

\* <body><p><b>Your</b><i>data</i><u>rights</u></p>
\*   <p>We keep <em>your records</em> for one year.</p></body>
DocFragments ==
    << El("body", 0, <<2, 9>>),
       El("p", 1, <<3, 5, 7>>),
       El("b", 2, <<4>>),
       Text(3, Chars("Your")),
       El("i", 2, <<6>>),
       Text(5, Chars("data")),
       El("u", 2, <<8>>),
       Text(7, Chars("rights")),
       El("p", 1, <<10, 11, 13>>),
       Text(9, Chars("We keep ")),
       El("em", 9, <<12>>),
       Text(11, Chars("your records")),
       Text(9, Chars(" for one year.")) >>

\* <body><p>Your personal data is safe. Your personal data is never
\*   sold.</p></body>
DocRepeat ==
    << El("body", 0, <<2>>),
       El("p", 1, <<3>>),
       Text(2, Chars("Your personal data is safe. Your personal data is never sold.")) >>

\* <body><div><p>&hellip;&hellip;&hellip;&hellip;&hellip;&hellip;Fees apply.</p></div></body>:
\* the normalized text of the node is longer than its data.
DocEllipsis ==
    << El("body", 0, <<2>>), El("div", 1, <<3>>), El("p", 2, <<4>>),
       Text(3, <<HELLIP, HELLIP, HELLIP, HELLIP, HELLIP, HELLIP>> \o Chars("Fees apply.")) >>

\* <body><div><p><b>We sell</b> your data</p>
\*   <p>This happens only ... under thirteen.</p></div></body>
DocNested ==
    << El("body", 0, <<2>>),
       El("div", 1, <<3, 7>>),
       El("p", 2, <<4, 6>>),
       El("b", 3, <<5>>),
       Text(4, Chars("We sell")),
       Text(3, Chars(" your data")),
       El("p", 2, <<8>>),
       Text(7, Chars("This happens only with your consent and never for children under thirteen.")) >>

\* The number of highlightClause calls in a behaviour: on the pages where
\* the lifecycle of several highlights is explored, and on the pages where
\* the match of one quote is.
MaxCalls == 2
MatchCalls == 1

\* A page: the document, whether the browser has window.find, the quotes
\* asked of it and the number of calls made on it.
Pages ==
    << [dom |-> DocPlain, find |-> FALSE, calls |-> MaxCalls,
        quotes |-> { Chars("personal information"),
                     Chars("information including your name") }],
       [dom |-> DocInline, find |-> FALSE, calls |-> MaxCalls,
        quotes |-> { Chars("your data rights"),
                     Chars("no such words here") }],
       [dom |-> DocPlain, find |-> FALSE, calls |-> MatchCalls,
        quotes |-> { Chars("personal information"),
                     Chars("we collect your personal information"),
                     Chars("your     name"),
                     Chars("short one"),
                     Chars("we gather personal inf.rmation (including the names"),
                     Chars("they use personal inf.rmation including") }],
       [dom |-> DocSpaced, find |-> FALSE, calls |-> MatchCalls,
        quotes |-> { Chars("data rights\n are protected"),
                     Chars("Your   data rights"),
                     Chars("          ") }],
       [dom |-> DocInline, find |-> FALSE, calls |-> MatchCalls,
        quotes |-> { Chars("your data rights"),
                     Chars("Your data rights"),
                     Chars("advertisers or data brokers") }],
       [dom |-> DocPlain, find |-> TRUE, calls |-> MatchCalls,
        quotes |-> { Chars("your name and everything else"),
                     Chars("email address. Nothing more") }],
       [dom |-> DocLong, find |-> FALSE, calls |-> MatchCalls,
        quotes |-> { Chars("may share your personal data with our trusted advertising partners and service providers for marketing and analytics"),
                     Chars("share your personal data with third parties"),
                     Chars("they give it to trusted advertising partners sometimes"),
                     Chars("honestly we may share your personal data sometimes") }],
       [dom |-> DocHidden, find |-> FALSE, calls |-> MatchCalls,
        quotes |-> { Chars("hidden terms apply"),
                     Chars("secret fees are charged"),
                     Chars("unseen clauses bind"),
                     Chars("transparent wording hides"),
                     Chars("public rules stay listed") }],
       [dom |-> DocFragments, find |-> FALSE, calls |-> MatchCalls,
        quotes |-> { Chars("your data rights"),
                     Chars("Your Data Rights"),
                     Chars("keep your records for one"),
                     Chars("yourdatarights") }],
       [dom |-> DocRepeat, find |-> FALSE, calls |-> MatchCalls,
        quotes |-> { Chars("your personal data"),
                     Chars("personal data is"),
                     Chars("personal data is never") }],
       [dom |-> DocNested, find |-> FALSE, calls |-> MatchCalls,
        quotes |-> { Chars("we sell your data"),
                     Chars("sell your data") }],
       [dom |-> DocEllipsis, find |-> FALSE, calls |-> MatchCalls,
        quotes |-> { Chars("fees apply."),
                     Chars("fees apply") }] >>

\* The values of options.duration the callers pass (milliseconds).
highlightDuration == 5000
Durations == {-1, 0, 300, highlightDuration}

\* The delay of the removal callback (milliseconds).
fadeDelay == 500

\* ------------------------------------------------------------------------
\* The state
\* ------------------------------------------------------------------------

VARIABLES
    page,               \* which of Pages the document was loaded from
    dom,                \* the document
    activeHighlights,   \* this.activeHighlights: element references
    timers,             \* pending setTimeout callbacks, in creation order
    calls,              \* highlightClause calls made so far
    log,                \* history: the highlights created, in creation order,
                        \* and whether the removal callback has run on each
    result,             \* the last operation and what it returned
    tabs,               \* service worker: the tabs it created, by tab id
    pendingHighlights,  \* service worker: Map tab id -> quote
    readyMsgs,          \* CONTENT_SCRIPT_READY messages in flight (sender tab)
    handlers,           \* suspended runs of handleContentScriptReady
    sentMsgs            \* HIGHLIGHT_CLAUSE messages sent by the worker

vars == <<page, dom, activeHighlights, timers, calls, log, result,
          tabs, pendingHighlights, readyMsgs, handlers, sentMsgs>>

\* The calls made on the page.
budget == Pages[page].calls

\* typeof window.find === 'function'
hasFind == Pages[page].find

NoResult ==
    [op |-> "none", quote |-> << >>, threw |-> FALSE, ret |-> FALSE, el |-> 0,
     strategy |-> "none"]

Init ==
    /\ page \in 1..Len(Pages)
    /\ dom = Pages[page].dom
    /\ activeHighlights = << >>
    /\ timers = << >>
    /\ calls = 0
    /\ log = << >>
    /\ result = NoResult
    /\ tabs = << >>
    /\ pendingHighlights = [t \in {} |-> << >>]
    /\ readyMsgs = << >>
    /\ handlers = << >>
    /\ sentMsgs = << >>

\* setTimeout(callback, delay): `due` is the time left until the callback
\* runs; `hl` is the log index of the highlight whose creation (expire) or
\* whose expiry (fade) scheduled it, 0 for a fade started by
\* clearAllHighlights.
Timer(kind, el, delay, hl) == [kind |-> kind, el |-> el, due |-> delay, hl |-> hl]

\* removeHighlight(element) up to its setTimeout: the fade class and the
\* removal callback.
removeHighlightDom(d, element) == addClass(d, element, fadeClass)
removeHighlightTimers(ts, element, hl) == Append(ts, Timer("fade", element, fadeDelay, hl))

\* A highlightClause that schedules the auto-remove timer whatever the
\* duration.
scheduleAlways(ts, el, duration, hl) ==
    Append(ts, Timer("expire", el, duration, hl))

\* The auto-remove timer of highlightClause.
scheduleExpiry(ts, el, duration, hl) ==
    IF duration > 0 THEN Append(ts, Timer("expire", el, duration, hl)) ELSE ts

\* highlightClause(clauseText, {scrollIntoView, duration}); `out` is
\* highlightOutcome of the call.  highlight.scrollIntoView() moves the
\* viewport only, which is not part of the state.
HighlightClause(clauseText, scrollIntoView, duration, out) ==
    /\ calls < budget
    /\ calls' = calls + 1
    /\ dom' = out.dom
    /\ activeHighlights' = IF out.ret THEN Append(activeHighlights, out.el)
                           ELSE activeHighlights
    /\ log' = IF out.ret
              THEN Append(log, [el |-> out.el, duration |-> duration,
                                wrapper |-> out.dom[out.el].marker, removed |-> FALSE])
              ELSE log
    /\ timers' = IF out.ret THEN scheduleExpiry(timers, out.el, duration, Len(log) + 1)
                 ELSE timers
    /\ result' = [op |-> "highlightClause", quote |-> clauseText, threw |-> out.threw,
                  ret |-> out.ret, el |-> out.el, strategy |-> out.strategy]
    /\ UNCHANGED page
    /\ UNCHANGED <<tabs, pendingHighlights, readyMsgs, handlers, sentMsgs>>

\* clearAllHighlights(): removeHighlight on every entry in registry order
\* (clearDom and clearTimers are the two effects of the forEach), then an
\* empty registry.
RECURSIVE clearDom(_, _)
clearDom(d, registry) ==
    IF registry = << >> THEN d
    ELSE clearDom(removeHighlightDom(d, Head(registry)), Tail(registry))
\* A clearAllHighlights that empties the registry without removeHighlight.
clearWithoutRemove(ts, registry) == ts

RECURSIVE clearTimers(_, _)
clearTimers(ts, registry) ==
    IF registry = << >> THEN ts
    ELSE clearTimers(removeHighlightTimers(ts, Head(registry), 0), Tail(registry))

ClearAllHighlights ==
    /\ dom' = clearDom(dom, activeHighlights)
    /\ timers' = clearTimers(timers, activeHighlights)
    /\ activeHighlights' = << >>
    /\ result' = [NoResult EXCEPT !.op = "clearAllHighlights"]
    /\ UNCHANGED <<page, calls, log>>
    /\ UNCHANGED <<tabs, pendingHighlights, readyMsgs, handlers, sentMsgs>>

\* The timer that runs next: the least time left, the earliest created of
\* those.
nextTimer(ts) ==
    CHOOSE i \in 1..Len(ts) :
        \A j \in 1..Len(ts) : ts[i].due < ts[j].due \/ (ts[i].due = ts[j].due /\ i <= j)

\* The pending timers after timer i ran: time has advanced by its delay.
elapse(ts, i) ==
    LET rest == SubSeq(ts, 1, i - 1) \o SubSeq(ts, i + 1, Len(ts))
    IN  Tuple([k \in 1..Len(rest) |-> [rest[k] EXCEPT !.due = @ - ts[i].due]])

\* The auto-remove callback of highlightClause: removeHighlight(highlight).
ExpiryFires ==
    /\ timers # << >>
    /\ LET i == nextTimer(timers)
           t == timers[i]
       IN  /\ t.kind = "expire"
           /\ dom' = removeHighlightDom(dom, t.el)
           /\ timers' = removeHighlightTimers(elapse(timers, i), t.el, t.hl)
           /\ result' = [NoResult EXCEPT !.op = "expire"]
    /\ UNCHANGED <<page, activeHighlights, calls, log>>
    /\ UNCHANGED <<tabs, pendingHighlights, readyMsgs, handlers, sentMsgs>>

\* The callback of removeHighlight, 500 ms after the fade began.
FadeFires ==
    /\ timers # << >>
    /\ LET i == nextTimer(timers)
           t == timers[i]
       IN  /\ t.kind = "fade"
           /\ dom' = fadeDone(dom, t.el)
           /\ activeHighlights' = evict(activeHighlights, t.el)
           /\ timers' = elapse(timers, i)
           /\ log' = Tuple([h \in 1..Len(log) |->
                              IF log[h].el = t.el THEN [log[h] EXCEPT !.removed = TRUE]
                              ELSE log[h]])
           /\ result' = [NoResult EXCEPT !.op = "fadeDone"]
    /\ UNCHANGED <<page, calls>>
    /\ UNCHANGED <<tabs, pendingHighlights, readyMsgs, handlers, sentMsgs>>

\* A caller asks for a quote of the page.
HighlightClauseCall ==
    /\ calls < budget
    /\ \E clauseText \in Pages[page].quotes :
          \E out \in {highlightOutcome(dom, clauseText, hasFind)} :
             \E scrollIntoView \in BOOLEAN, duration \in Durations :
                HighlightClause(clauseText, scrollIntoView, duration, out)

Next ==
    \/ HighlightClauseCall
    \/ ClearAllHighlights
    \/ ExpiryFires
    \/ FadeFires

Spec == Init /\ [][Next]_vars

\* The pages on which the match of a quote is explored: the same operations,
\* fewer calls.
MatchInit == Init /\ Pages[page].calls = MatchCalls
MatchSpec == MatchInit /\ [][Next]_vars

\* Timers run: the event loop eventually runs every callback that is due.
FairSpec == Spec /\ WF_vars(ExpiryFires) /\ WF_vars(FadeFires)

\* ------------------------------------------------------------------------
\* normalizeText on its own: the texts it is applied to are the strings of
\* at most MaxLen characters over an alphabet with one character of every
\* class the function treats (upper and lower case, the whitespace of \s,
\* a quote, the dashes, the ellipsis).  `result` holds the text in `quote`
\* and the value of the applications made so far in `value`; `calls` counts
\* the applications.
\* ------------------------------------------------------------------------

MaxLen == 3
Alphabet == {"A", "b", " ", "\n", "\r", NBSP, "'", ENDASH, EMDASH, HELLIP}
Texts == UNION {{Tuple(t) : t \in [1..k -> Alphabet]} : k \in 0..MaxLen}

NormInit ==
    /\ page = 1
    /\ dom = Pages[page].dom
    /\ activeHighlights = << >>
    /\ timers = << >>
    /\ calls = 0
    /\ log = << >>
    /\ \E text \in Texts : result = [op |-> "none", quote |-> text, value |-> text]
    /\ tabs = << >>
    /\ pendingHighlights = [t \in {} |-> << >>]
    /\ readyMsgs = << >>
    /\ handlers = << >>
    /\ sentMsgs = << >>

\* value = normalizeText(value), at most twice in a row.
NormalizeTextCall ==
    /\ calls < 2
    /\ calls' = calls + 1
    /\ result' = [result EXCEPT !.op = "normalizeText", !.value = normalizeText(@)]
    /\ UNCHANGED <<page, dom, activeHighlights, timers, log>>
    /\ UNCHANGED <<tabs, pendingHighlights, readyMsgs, handlers, sentMsgs>>

NormNext == NormalizeTextCall

NormSpec == NormInit /\ [][NormNext]_vars

\* ------------------------------------------------------------------------
\* The service worker's pending highlights: OPEN_POLICY_WITH_HIGHLIGHT opens
\* a tab and stores the quote; each run of the content script in a tab sends
\* CONTENT_SCRIPT_READY; handleContentScriptReady reads the quote, waits one
\* second, sends HIGHLIGHT_CLAUSE and deletes the entry.  A handler is
\* suspended at its two awaits: pc "wait" (the timeout) and "send" (the
\* promise of chrome.tabs.sendMessage).
\* ------------------------------------------------------------------------

MaxTabs == 2
MaxScripts == 2

mapSet(map, key, value) ==
    [k \in DOMAIN map \cup {key} |-> IF k = key THEN value ELSE map[k]]
mapDelete(map, key) == [k \in DOMAIN map \ {key} |-> map[k]]

\* handleOpenPolicyWithHighlight: chrome.tabs.create gives a fresh tab id.
OpenPolicyWithHighlight ==
    /\ Len(tabs) < MaxTabs
    /\ \E quote \in {<< >>, Chars("we sell your data")} :   \* the empty quote is falsy
          LET newTab == Len(tabs) + 1 IN
          /\ tabs' = Append(tabs, [open |-> TRUE, scripts |-> 0])
          /\ pendingHighlights' = IF quote # << >>
                                  THEN mapSet(pendingHighlights, newTab, quote)
                                  ELSE pendingHighlights
    /\ UNCHANGED <<readyMsgs, handlers, sentMsgs>>
    /\ UNCHANGED <<page, dom, activeHighlights, timers, calls, log, result>>

\* The content script runs in a tab (a load of a page) and notifies the
\* worker.
ContentScriptRuns ==
    /\ \E tab \in 1..Len(tabs) :
          /\ tabs[tab].open
          /\ tabs[tab].scripts < MaxScripts
          /\ tabs' = [tabs EXCEPT ![tab].scripts = @ + 1]
          /\ readyMsgs' = Append(readyMsgs, tab)
    /\ UNCHANGED <<pendingHighlights, handlers, sentMsgs>>
    /\ UNCHANGED <<page, dom, activeHighlights, timers, calls, log, result>>

\* onMessage CONTENT_SCRIPT_READY: handleContentScriptReady(sender.tab) up
\* to its first await.
ReadyReceived ==
    /\ readyMsgs # << >>
    /\ LET tab == Head(readyMsgs) IN
       handlers' = IF tab \in DOMAIN pendingHighlights
                   THEN Append(handlers, [tab |-> tab, pc |-> "wait",
                                          pendingQuote |-> pendingHighlights[tab]])
                   ELSE handlers
    /\ readyMsgs' = Tail(readyMsgs)
    /\ UNCHANGED <<tabs, pendingHighlights, sentMsgs>>
    /\ UNCHANGED <<page, dom, activeHighlights, timers, calls, log, result>>

\* The one-second timeout of the earliest waiting handler runs:
\* chrome.tabs.sendMessage, which rejects when the tab is gone.
WaitEnds ==
    /\ \E i \in 1..Len(handlers) :
          /\ handlers[i].pc = "wait"
          /\ \A j \in 1..(i - 1) : handlers[j].pc # "wait"
          /\ handlers' = [handlers EXCEPT ![i].pc = "send"]
          /\ sentMsgs' = IF tabs[handlers[i].tab].open
                         THEN Append(sentMsgs, [type |-> "HIGHLIGHT_CLAUSE",
                                                tab |-> handlers[i].tab,
                                                quote |-> handlers[i].pendingQuote])
                         ELSE sentMsgs
    /\ UNCHANGED <<tabs, pendingHighlights, readyMsgs>>
    /\ UNCHANGED <<page, dom, activeHighlights, timers, calls, log, result>>

\* The promise of sendMessage settles: pendingHighlights.delete(tab.id).
SendSettles ==
    /\ \E i \in 1..Len(handlers) :
          /\ handlers[i].pc = "send"
          /\ pendingHighlights' = mapDelete(pendingHighlights, handlers[i].tab)
          /\ handlers' = SubSeq(handlers, 1, i - 1) \o SubSeq(handlers, i + 1, Len(handlers))
    /\ UNCHANGED <<tabs, readyMsgs, sentMsgs>>
    /\ UNCHANGED <<page, dom, activeHighlights, timers, calls, log, result>>

\* chrome.tabs.onRemoved
TabRemoved ==
    /\ \E tabId \in 1..Len(tabs) :
          /\ tabs[tabId].open
          /\ tabs' = [tabs EXCEPT ![tabId].open = FALSE]
          /\ pendingHighlights' = mapDelete(pendingHighlights, tabId)
    /\ UNCHANGED <<readyMsgs, handlers, sentMsgs>>
    /\ UNCHANGED <<page, dom, activeHighlights, timers, calls, log, result>>

WorkerNext ==
    \/ OpenPolicyWithHighlight
    \/ ContentScriptRuns
    \/ ReadyReceived
    \/ WaitEnds
    \/ SendSettles
    \/ TabRemoved

WorkerInit == Init /\ page = 1
WorkerSpec == WorkerInit /\ [][WorkerNext]_vars

\* ------------------------------------------------------------------------
\* Vocabulary of the properties
\* ------------------------------------------------------------------------

\* Node n is in the document.
RECURSIVE attached(_, _)
attached(d, n) == n = Body \/ (d[n].parent # 0 /\ attached(d, d[n].parent))

\* Element e is a visible marker: in the document with the highlight class.
marked(d, e) == attached(d, e) /\ highlightClass \in d[e].classes

InRegistry(registry, e) == \E i \in 1..Len(registry) : registry[i] = e

\* The lifecycle state of the highlight with log index h.
phase(h) ==
    IF log[h].removed THEN "Removed"
    ELSE IF fadeClass \in dom[log[h].el].classes THEN "Fading"
    ELSE "Active"

Highlights == 1..Len(log)
PendingExpiry(ts, h) == \E i \in 1..Len(ts) : ts[i].kind = "expire" /\ ts[i].hl = h
PendingFade(ts, e) == \E i \in 1..Len(ts) : ts[i].kind = "fade" /\ ts[i].el = e

\* The step is a call of highlightClause / the run of a timer callback.
IsCall == calls' = calls + 1
FiredTimer == timers[nextTimer(timers)]
IsExpiry == timers # << >> /\ result'.op = "expire"
IsFadeDone == timers # << >> /\ result'.op = "fadeDone"
IsClearAll == result'.op = "clearAllHighlights"

TypeOK ==
    /\ calls \in 0..budget
    /\ Len(log) <= calls
    /\ \A i \in 1..Len(activeHighlights) : dom[activeHighlights[i]].kind = "element"

\* ------------------------------------------------------------------------
\* C1. highlightClause and clearAllHighlights never raise: every call
\* completes by returning true or false.
\* ------------------------------------------------------------------------
C1_NeverRaises == ~result.threw

\* ------------------------------------------------------------------------
\* C2. A quote of at least 10 characters taken verbatim from the visible
\* text of the document is found, and the normalized text the highlight
\* covers equals the normalized quote.
\* ------------------------------------------------------------------------
visibleText(d) ==
    concatData(d, SelectSeq(textNodesUnder(d, Body), LAMBDA n : acceptNode(d, n)))
Verbatim(d, quote) == indexOf(visibleText(d), quote) # -1

C2_VerbatimQuoteHighlighted ==
    [][ (IsCall /\ Len(result'.quote) >= minClauseLength /\ Verbatim(dom, result'.quote))
        => /\ result'.ret
           /\ normalizeText(textContent(dom', result'.el)) = normalizeText(result'.quote) ]_vars

\* ------------------------------------------------------------------------
\* C3. A quote whose normalized form is shorter than 10 characters is
\* rejected: highlightClause returns false, does not raise, and creates and
\* registers no highlight.
\* ------------------------------------------------------------------------
C3_ShortNormalizedQuoteRejected ==
    [][ (IsCall /\ Len(normalizeText(result'.quote)) < minClauseLength)
        => /\ ~result'.ret /\ ~result'.threw
           /\ dom' = dom /\ activeHighlights' = activeHighlights ]_vars

\* ------------------------------------------------------------------------
\* C4. A highlight stays marked in the document and present in the registry
\* until its own duration has elapsed: the removal that the expiry of
\* another highlight started never removes or detaches its marker.
\* ------------------------------------------------------------------------
C4_ExpiryLeavesOthersMarked ==
    [][ \A h \in Highlights :
          (/\ IsFadeDone /\ FiredTimer.hl # 0
           /\ PendingExpiry(timers, h)
           /\ marked(dom, log[h].el) /\ InRegistry(activeHighlights, log[h].el))
          => /\ marked(dom', log[h].el)
             /\ InRegistry(activeHighlights', log[h].el) ]_vars

\* ------------------------------------------------------------------------
\* C5. The expiry timer of a highlight that was already removed changes
\* neither the classes, the wrapper nor the registry entry of any highlight
\* created afterwards.
\* ------------------------------------------------------------------------
C5_StaleTimerIsHarmless ==
    [][ \A h \in Highlights :
          (/\ IsExpiry /\ FiredTimer.hl < h /\ log[FiredTimer.hl].removed
           /\ ~log[h].removed)
          => /\ dom'[log[h].el].classes = dom[log[h].el].classes
             /\ attached(dom', log[h].el) = attached(dom, log[h].el)
             /\ InRegistry(activeHighlights', log[h].el)
                   = InRegistry(activeHighlights, log[h].el) ]_vars

\* ------------------------------------------------------------------------
\* C6. removeHighlight on a highlight that is already Fading or Removed is a
\* no-op: no class, no structure and no registry entry changes and no
\* further removal step starts.
\* ------------------------------------------------------------------------
C6_RemoveTwiceIsNoOp ==
    [][ (IsExpiry /\ phase(FiredTimer.hl) \in {"Fading", "Removed"})
        => /\ dom' = dom
           /\ activeHighlights' = activeHighlights
           /\ \A e \in 1..Len(dom) :
                 Cardinality({i \in 1..Len(timers') : timers'[i].kind = "fade" /\ timers'[i].el = e})
                   <= Cardinality({i \in 1..Len(timers) : timers[i].kind = "fade" /\ timers[i].el = e})
      ]_vars

\* ------------------------------------------------------------------------
\* C7. clearAllHighlights applies removeHighlight to every registry entry in
\* registry order and leaves the registry empty; once the removal callbacks
\* have run, the document holds no wrapper and no element with the
\* highlight class.
\* ------------------------------------------------------------------------
NoMarkers(d) ==
    \A n \in 1..Len(d) : attached(d, n) => (~d[n].marker /\ highlightClass \notin d[n].classes)
NoFadePending(ts) == \A i \in 1..Len(ts) : ts[i].kind # "fade"

C7_ClearAllLeavesNothing ==
    /\ [][ IsClearAll =>
             /\ activeHighlights' = << >>
             /\ timers' = timers \o [i \in 1..Len(activeHighlights) |->
                                        Timer("fade", activeHighlights[i], fadeDelay, 0)]
             /\ \A i \in 1..Len(activeHighlights) :
                   fadeClass \in dom'[activeHighlights[i]].classes ]_vars
    /\ []((activeHighlights = << >> /\ NoFadePending(timers)) => NoMarkers(dom))

\* clearAllHighlights has removed a highlight that never expires by itself,
\* the callbacks have run and the document is clean.
C7_Witness ==
    /\ \E h \in Highlights : log[h].duration <= 0 /\ log[h].removed
    /\ activeHighlights = << >> /\ NoFadePending(timers) /\ NoMarkers(dom)

\* ------------------------------------------------------------------------
\* C8. Creating a wrapper highlight and removing it leaves the text of the
\* document as it was: no step changes the text below any element of the
\* page, the removal callback takes the wrapper out of the document, and
\* after one create and its removal every element of the page has its
\* initial text.
\* ------------------------------------------------------------------------
IsPageElement(d, n) == d[n].kind = "element" /\ ~d[n].marker

C8_CreateRemoveKeepsText ==
    /\ [][ /\ \A n \in 1..Len(dom) :
                IsPageElement(dom, n) => textContent(dom', n) = textContent(dom, n)
           /\ (IsFadeDone /\ dom[FiredTimer.el].marker) =>
                /\ ~attached(dom', FiredTimer.el)
                /\ \A n \in 1..Len(dom') : \A k \in 1..Len(dom'[n].kids) :
                      dom'[n].kids[k] # FiredTimer.el ]_vars
    /\ []((Len(log) = 1 /\ log[1].wrapper /\ log[1].removed) =>
            \A n \in 1..Len(Pages[page].dom) :
               IsPageElement(dom, n) => textContent(dom, n) = textContent(Pages[page].dom, n))

\* A wrapper around a proper part of a text node was created and removed.
C8_Witness ==
    /\ Len(log) = 1 /\ log[1].wrapper /\ log[1].removed
    /\ dom[log[1].el].parent = 0
    /\ \E n \in 1..Len(Pages[page].dom) :
          dom[n].kind = "text" /\ dom[n].data # Pages[page].dom[n].data

\* ------------------------------------------------------------------------
\* C9. Creating a wrapper highlight and removing it is a full structural
\* rollback: every node of the page has the children and the text it had
\* before the create.
\* ------------------------------------------------------------------------
C9_FullStructuralRollback ==
    (Len(log) = 1 /\ log[1].wrapper /\ log[1].removed) =>
        \A n \in 1..Len(Pages[page].dom) :
           /\ dom[n].kids = Pages[page].dom[n].kids
           /\ dom[n].data = Pages[page].dom[n].data

Markers(d) ==
    {n \in 1..Len(d) : attached(d, n) /\ (d[n].marker \/ highlightClass \in d[n].classes)}

C11_TrueIffOneNewMarker ==
    [][ IsCall =>
          IF result'.ret
          THEN /\ Cardinality(Markers(dom') \ Markers(dom)) = 1
               /\ Markers(dom) \subseteq Markers(dom')
               /\ activeHighlights' = Append(activeHighlights, result'.el)
          ELSE /\ Markers(dom') = Markers(dom)
               /\ activeHighlights' = activeHighlights ]_vars

\* ------------------------------------------------------------------------
\* C12. Registry mutations are paired: every entry of the registry belongs
\* to a highlight that is not yet Removed, and every Active highlight has
\* its entry in the registry.
\* ------------------------------------------------------------------------
C12_RegistryPaired ==
    /\ \A i \in 1..Len(activeHighlights) :
          \E h \in Highlights : log[h].el = activeHighlights[i] /\ ~log[h].removed
    /\ \A h \in Highlights :
          phase(h) = "Active" => InRegistry(activeHighlights, log[h].el)

\* ------------------------------------------------------------------------
\* C13. The registry is an ordered set: its entries are in insertion order,
\* no element appears in it twice, and an entry leaves it only in the step
\* that takes its highlight to Removed.
\* ------------------------------------------------------------------------
\* The elements of the highlights created so far, in creation order.
Inserted == [h \in Highlights |-> log[h].el]

\* xs is ys with some entries left out.
RECURSIVE IsSubsequence(_, _)
IsSubsequence(xs, ys) ==
    IF xs = << >> THEN TRUE
    ELSE IF ys = << >> THEN FALSE
    ELSE IF Head(xs) = Head(ys) THEN IsSubsequence(Tail(xs), Tail(ys))
    ELSE IsSubsequence(xs, Tail(ys))

C13_RegistryIsOrderedSet ==
    /\ [](IsSubsequence(activeHighlights, Inserted))
    /\ [](\A i, j \in 1..Len(activeHighlights) :
             activeHighlights[i] = activeHighlights[j] => i = j)
    /\ [][ \A h \in Highlights :
             (InRegistry(activeHighlights, log[h].el)
                /\ ~InRegistry(activeHighlights', log[h].el))
             => (~log[h].removed /\ log'[h].removed) ]_vars

\* ------------------------------------------------------------------------
\* C14. The cascade tries exact, startWords, keyPhrase, substring and the
\* browser search in this order and stops at the first match: the highlight
\* of a call is made from the match of the earliest strategy that yields
\* one, and the browser search decides only when the four others found
\* nothing.
\* ------------------------------------------------------------------------
Strategies == <<"exact", "startWords", "keyPhrase", "substring">>

C14_EarliestStrategyWins ==
    [][ (IsCall /\ Len(result'.quote) >= minClauseLength) =>
          \A tried \in {Tuple([i \in 1..Len(Strategies) |->
                                 findTextInPage(dom, result'.quote, Strategies[i])])} :
             /\ \A i \in 1..Len(Strategies) :
                   (tried[i] # Null /\ \A j \in 1..(i - 1) : tried[j] = Null)
                   => /\ result'.strategy = Strategies[i]
                      /\ IF tried[i] = Thrown THEN result'.threw
                         ELSE \A made \in {createHighlight(dom, tried[i])} :
                                 /\ result'.ret
                                 /\ result'.el = made.el
                                 /\ dom' = made.dom
             /\ (\A i \in 1..Len(Strategies) : tried[i] = Null)
                   => IF findWithBrowserAPI(dom, result'.quote, hasFind) = Null
                      THEN ~result'.ret /\ dom' = dom
                      ELSE result'.ret /\ result'.strategy = "browserFind" ]_vars

\* A quote was highlighted from its exact match although the startWords
\* strategy matches it too, with a shorter span.
C14_Witness ==
    /\ calls = 1 /\ result.op = "highlightClause" /\ result.ret
    /\ result.strategy = "exact"
    /\ LET startWords == findTextInPage(Pages[page].dom, result.quote, "startWords")
       IN  /\ startWords # Null
           /\ startWords.length < Len(normalizeText(result.quote))

\* ------------------------------------------------------------------------
\* C15. A text node inside a display:none container (its parent or any
\* ancestor), or whose containing element is visibility:hidden or has zero
\* opacity, is not in the index of buildPageText; a quote that occurs only
\* in such nodes is not highlighted: highlightClause returns false.
\* ------------------------------------------------------------------------
\* Some element from e up to the body has display:none.
RECURSIVE displayNoneAbove(_, _)
displayNoneAbove(d, e) ==
    e # 0 /\ (d[e].display = "none" \/ displayNoneAbove(d, d[e].parent))

\* Text node n of the page is inside a container that is not shown.
InHiddenContainer(d, n) ==
    /\ d[n].kind = "text" /\ d[n].parent # 0
    /\ \/ displayNoneAbove(d, d[n].parent)
       \/ computedVisibility(d, d[n].parent) = "hidden"
       \/ d[d[n].parent].opacity = "0"

\* The text nodes of the page that are shown.
shownNodes(d) ==
    SelectSeq(textNodesUnder(d, Body), LAMBDA n : ~InHiddenContainer(d, n))

\* The quote occurs in the hidden text of the page and shares no word with
\* the text that is shown.
OnlyInHidden(d, quote) ==
    /\ \E n \in 1..Len(d) :
          /\ attached(d, n) /\ InHiddenContainer(d, n)
          /\ indexOf(normalizeText(d[n].data), normalizeText(quote)) # -1
    /\ LET ws == split(normalizeText(quote))
           shown == normalizeText(concatData(d, shownNodes(d)))
       IN  \A i \in 1..Len(ws) : indexOf(shown, ws[i]) = -1

C15_HiddenTextNeverMatches ==
    /\ [](\A n \in 1..Len(dom) :
             (attached(dom, n) /\ InHiddenContainer(dom, n))
             => \A i \in 1..Len(buildPageText(dom).nodeMap) :
                   buildPageText(dom).nodeMap[i].node # n)
    /\ [][ (IsCall /\ OnlyInHidden(dom, result'.quote))
           => (~result'.ret /\ dom' = dom) ]_vars

\* ------------------------------------------------------------------------
\* C16. A quote (of at least the 10 characters highlightClause asks for)
\* whose words are spread over several adjacent text nodes is matched by the
\* exact strategy, thanks to the single space the buffer holds between the
\* texts of two nodes, and highlightClause returns true: the match is the
\* quote and covers several nodes, unless the quote also occurs earlier in
\* the buffer, inside one node.
\* ------------------------------------------------------------------------
\* The normalized texts of the text nodes buildPageText visits, blank ones
\* left out.
nodeTexts(d) ==
    LET ns == textNodesOf(d)
        texts == [k \in 1..Len(ns) |-> normalizeText(d[ns[k]].data)]
    IN  SelectSeq(texts, LAMBDA t : Len(t) > 0)

\* The normalized quote reads as the end of one node's text, the whole text
\* of the nodes after it, and the beginning of a last node's text, with one
\* space at each node boundary.
SpreadOverNodes(d, quote) ==
    LET texts == nodeTexts(d)
        nq == normalizeText(quote)
    IN  \E i, j \in 1..Len(texts) :
           /\ i < j
           /\ LET joined == join(SubSeq(texts, i, j), <<" ">>)
              IN  \E p \in 0..(Len(texts[i]) - 1) :
                     /\ IsAt(joined, nq, p)
                     /\ p + Len(nq) > Len(joined) - Len(texts[j])

C16_FragmentedQuoteMatchesExactly ==
    [][ (IsCall /\ Len(result'.quote) >= minClauseLength
           /\ SpreadOverNodes(dom, result'.quote))
        => /\ result'.ret
           /\ result'.strategy = "exact"
           /\ \A pageText \in {buildPageText(dom)}, nq \in {normalizeText(result'.quote)} :
                 \A m \in {findInBuffer(pageText, result'.quote, nq, "exact")} :
                    /\ m.text = nq
                    /\ \/ Len(m.nodes) > 1
                       \/ \E p \in (m.start + 1)..Len(pageText.combinedText) :
                             IsAt(pageText.combinedText, nq, p) ]_vars

\* "your data rights" was asked of <b>Your</b><i>data</i><u>rights</u> and
\* a highlight was made from the exact match over the three text nodes.
C16_Witness ==
    /\ calls = 1 /\ result.op = "highlightClause" /\ result.ret
    /\ result.strategy = "exact"
    /\ SpreadOverNodes(Pages[page].dom, result.quote)
    /\ Len(findTextInPage(Pages[page].dom, result.quote, "exact").nodes) = 3
    /\ \A n \in 1..Len(Pages[page].dom) :
          Pages[page].dom[n].kind = "text"
          => indexOf(Pages[page].dom[n].data, <<" ">>) = -1
             \/ indexOf(normalizeText(Pages[page].dom[n].data),
                        normalizeText(result.quote)) = -1

\* ------------------------------------------------------------------------
\* C17. When the normalized quote occurs in the buffer, the exact strategy
\* returns its leftmost occurrence, with the length of the normalized
\* quote, and highlightClause returns true; a quote that the buffer begins
\* with is matched at offset 0.  (For the quotes highlightClause admits, of
\* at least 10 characters, whose normalized form is not empty.)
\* ------------------------------------------------------------------------
C17_ExactIsLeftmost ==
    [][ (IsCall /\ Len(result'.quote) >= minClauseLength) =>
          \A pageText \in {buildPageText(dom)}, nq \in {normalizeText(result'.quote)} :
             (nq # << >> /\ indexOf(pageText.combinedText, nq) # -1)
             => \A m \in {findInBuffer(pageText, result'.quote, nq, "exact")} :
                   /\ m # Null /\ m # Thrown
                   /\ IsAt(pageText.combinedText, nq, m.start)
                   /\ \A p \in 0..(m.start - 1) : ~IsAt(pageText.combinedText, nq, p)
                   /\ m.length = Len(nq)
                   /\ m.text = nq
                   /\ IsAt(pageText.combinedText, nq, 0)
                         => (m.start = 0 /\ m.startOffset = 0)
                   /\ result'.ret /\ result'.strategy = "exact" ]_vars

\* A quote that occurs twice in the page, the first time at the very
\* beginning of the buffer, was highlighted from the exact match at 0.
C17_Witness ==
    /\ calls = 1 /\ result.op = "highlightClause" /\ result.ret
    /\ result.strategy = "exact"
    /\ LET buffer == buildPageText(Pages[page].dom).combinedText
           nq == normalizeText(result.quote)
       IN  /\ IsAt(buffer, nq, 0)
           /\ \E p \in 1..Len(buffer) : IsAt(buffer, nq, p)
           /\ findTextInPage(Pages[page].dom, result.quote, "exact").start = 0

\* ------------------------------------------------------------------------
\* C18. normalizeText is idempotent: applied to its own value it returns
\* that value, normalizeText(normalizeText(x)) = normalizeText(x).
\* ------------------------------------------------------------------------
\* (After one application `value` is normalizeText(quote); after the second
\* it is normalizeText of that, and still equal to it.)
C18_NormalizeTextIdempotent ==
    calls >= 1 => result.value = normalizeText(result.quote)

\* normalizeText was applied twice to "A", no-break space, ellipsis: the
\* value is "a ..." after the first and after the second application.
C18_Witness ==
    /\ calls = 2
    /\ result.quote = <<"A", NBSP, HELLIP>>
    /\ result.value = Chars("a ...")

\* ------------------------------------------------------------------------
\* C19. The index buildPageText builds: the spans are the accepted text
\* nodes with non-empty normalized text, in document order; the first span
\* starts at 0; every span is non-empty and the buffer reads the node's
\* normalized text over it; the next span starts one space after the end
\* of the previous one; the buffer is the spans' texts, each followed by
\* one space.
\* ------------------------------------------------------------------------
\* normalizeText of the data of every node of d (empty for an element).
normalized(d) == Tuple([n \in 1..Len(d) |-> normalizeText(d[n].data)])

\* The accepted text nodes whose normalized text is not empty, in document
\* order; norm is normalized(d).
indexedNodes(d, norm) ==
    SelectSeq(textNodesUnder(d, Body), LAMBDA n : acceptNode(d, n) /\ norm[n] # << >>)

\* The texts ts, each followed by one space.
RECURSIVE spaced(_)
spaced(ts) ==
    IF ts = << >> THEN << >> ELSE Head(ts) \o <<" ">> \o spaced(Tail(ts))

IndexWellFormed(d, pageText, norm) ==
    LET nodeMap == pageText.nodeMap
        buffer == pageText.combinedText
    IN  /\ [k \in 1..Len(nodeMap) |-> nodeMap[k].node] = indexedNodes(d, norm)
        /\ nodeMap # << >> => nodeMap[1].start = 0
        /\ \A k \in 1..Len(nodeMap) :
              /\ 0 <= nodeMap[k].start /\ nodeMap[k].start < nodeMap[k].end
              /\ nodeMap[k].end < Len(buffer)
              /\ substring(buffer, nodeMap[k].start, nodeMap[k].end) = norm[nodeMap[k].node]
              /\ buffer[nodeMap[k].end + 1] = " "
              /\ k < Len(nodeMap) => nodeMap[k + 1].start = nodeMap[k].end + 1
        /\ buffer = spaced([k \in 1..Len(nodeMap) |-> norm[nodeMap[k].node]])

C19_IndexWellFormed ==
    \A pageText \in {buildPageText(dom)}, norm \in {normalized(dom)} :
       IndexWellFormed(dom, pageText, norm)

\* After a highlight split a text node, the index has at least three spans
\* and an accepted text node that is blank was left out.
C19_Witness ==
    /\ result.op = "highlightClause" /\ result.ret
    /\ Len(buildPageText(dom).nodeMap) >= 3
    /\ \E n \in 1..Len(dom) :
          /\ dom[n].kind = "text" /\ attached(dom, n) /\ acceptNode(dom, n)
          /\ normalizeText(dom[n].data) = << >>
    /\ IndexWellFormed(dom, buildPageText(dom), normalized(dom))

\* ------------------------------------------------------------------------
\* C20. Whatever the strategy and the quote, a match findTextInPage returns
\* has 0 <= start < end <= length of the buffer, its text is the buffer
\* from start to end, and its nodes are the spans that overlap that range,
\* at least one; a position found that no span overlaps gives null.
\* ------------------------------------------------------------------------
\* The nodes of the spans of nodeMap that overlap [from, to).
overlapping(nodeMap, from, to) ==
    LET spans == SelectSeq(nodeMap, LAMBDA nm : nm.start < to /\ nm.end > from)
    IN  [k \in 1..Len(spans) |-> spans[k].node]

MatchWellFormed(pageText, found, m) ==
    LET buffer == pageText.combinedText
        end == found.index + found.length
    IN  /\ m # Thrown <=> ~found.threw
        /\ (m # Null /\ m # Thrown) =>
              /\ m.start = found.index /\ m.length = found.length
              /\ 0 <= m.start /\ m.start < end /\ end <= Len(buffer)
              /\ m.text = SubSeq(buffer, m.start + 1, end)
              /\ m.nodes # << >>
              /\ m.nodes = overlapping(pageText.nodeMap, m.start, end)
        /\ (~found.threw /\ (found.index = -1
                             \/ overlapping(pageText.nodeMap, found.index, end) = << >>))
              => m = Null

C20_MatchWithinBuffer ==
    [][ IsCall =>
          \A pageText \in {buildPageText(dom)}, nq \in {normalizeText(result'.quote)} :
             \A i \in 1..Len(Strategies) :
                \A found \in {search(pageText.combinedText, result'.quote, nq, Strategies[i])} :
                   \A m \in {matchFrom(pageText.combinedText, pageText.nodeMap, found,
                                       Strategies[i])} :
                      MatchWellFormed(pageText, found, m) ]_vars

\* A quote was highlighted from a key-phrase match that lies strictly
\* inside the buffer of the page.
C20_Witness ==
    /\ calls = 1 /\ result.op = "highlightClause"
    /\ result.ret /\ result.strategy = "keyPhrase"
    /\ \A pageText \in {buildPageText(Pages[page].dom)} :
          \A m \in {findInBuffer(pageText, result.quote, normalizeText(result.quote),
                                 "keyPhrase")} :
             /\ m.start > 0
             /\ m.start + m.length < Len(pageText.combinedText)
             /\ m.text = SubSeq(pageText.combinedText, m.start + 1, m.start + m.length)

\* ------------------------------------------------------------------------
\* C21. On the fallback path (a match over several text nodes, or a wrap
\* that failed, with a matched text of more than 10 characters) the element
\* that gets the highlight class is the first element E, going up from the
\* parent of the match's first node, whose parent's normalized text is more
\* than 3 times longer than E's own.
\* ------------------------------------------------------------------------
\* The first element from e upwards (below the body) whose parent has more
\* than fallbackRatio times its normalized text; 0 when there is none.
RECURSIVE firstTight(_, _)
firstTight(d, e) ==
    IF e = 0 \/ e = Body \/ d[e].parent = 0 THEN 0
    ELSE IF Len(normalizeText(textContent(d, d[e].parent)))
               > Len(normalizeText(textContent(d, e))) * fallbackRatio
    THEN e
    ELSE firstTight(d, d[e].parent)

C21_FallbackStopsAtTightElement ==
    [][ (IsCall /\ result'.ret /\ result'.strategy # "browserFind"
           /\ result'.el <= Len(dom)) =>
          \A m \in {findTextInPage(dom, result'.quote, result'.strategy)} :
             \A E \in {firstTight(dom, dom[m.nodes[1]].parent)} :
                (Len(m.text) > fallbackMinLength /\ E # 0) => result'.el = E ]_vars

\* ------------------------------------------------------------------------
\* C22. When a match covers several text nodes, the element highlighted is
\* an ancestor of every text node of the match.
\* ------------------------------------------------------------------------
\* Node n is e or lies below e.
RECURSIVE isBelow(_, _, _)
isBelow(d, n, e) == n # 0 /\ (n = e \/ isBelow(d, d[n].parent, e))

C22_HighlightContainsMatch ==
    [][ (IsCall /\ result'.ret /\ result'.strategy # "browserFind") =>
          \A m \in {findTextInPage(dom, result'.quote, result'.strategy)} :
             Len(m.nodes) > 1 =>
                \A i \in 1..Len(m.nodes) : isBelow(dom', m.nodes[i], result'.el) ]_vars

\* ------------------------------------------------------------------------
\* C23. When a match lies in one text node and a wrapper is produced, the
\* wrapper encloses a non-empty range of that node whose normalized text is
\* the matched text.
\* ------------------------------------------------------------------------
C23_WrapperHoldsMatchedText ==
    [][ (IsCall /\ result'.ret /\ result'.strategy # "browserFind"
           /\ result'.el > Len(dom) /\ dom'[result'.el].marker) =>
          \A m \in {findTextInPage(dom, result'.quote, result'.strategy)} :
             Len(m.nodes) = 1 =>
                /\ dom'[result'.el].kids # << >>
                /\ normalizeText(textContent(dom', result'.el)) = m.text ]_vars

C25_LeadingWordsLargestPrefix ==
    [][
    LET firstWords(words, N) == join(SubSeq(words, 1, N), <<" ">>)
        \* at[N] is the leftmost position of the first N words in the
        \* buffer, -1 when they do not occur or N is not admissible.
        LeadingWordsIsLargest(buf, words, m) ==
            \A at \in {Tuple([N \in 1..15 |->
                            IF N >= 5 /\ N <= Len(words) /\ Len(firstWords(words, N)) >= 20
                            THEN indexOf(buf, firstWords(words, N)) ELSE -1])} :
               IF \A N \in 1..15 : at[N] = -1 THEN m = Null
               ELSE /\ m # Null
                    /\ \E N \in 5..15 :
                          /\ at[N] # -1
                          /\ \A K \in (N + 1)..15 : at[K] = -1
                          /\ m.start = at[N]
                          /\ m.text = firstWords(words, N)
                          /\ m.length = Len(m.text)
    IN
        IsCall =>
          \A pageText \in {buildPageText(dom)}, nq \in {normalizeText(result'.quote)} :
             \A words \in {split(nq)},
                m \in {findInBuffer(pageText, result'.quote, nq, "startWords")} :
                LeadingWordsIsLargest(pageText.combinedText, words, m)
    ]_vars

\* A call matched by the startWords strategy with fewer words than the
\* query has.
C25_Witness ==
    /\ result.op = "highlightClause" /\ result.ret /\ result.strategy = "startWords"
    /\ \A m \in {findTextInPage(Pages[page].dom, result.quote, "startWords")} :
          /\ m # Null
          /\ Len(split(m.text)) < Len(split(normalizeText(result.quote)))

\* ------------------------------------------------------------------------
\* C26. The keyPhrase strategy returns a range of the buffer that holds a
\* window of the query's significant tokens, each as its own characters,
\* separated by whitespace only.
\* ------------------------------------------------------------------------
C26_KeyPhraseTokensLiteral ==
    [][
    LET IsWindowOf(tokens, sigWords) ==
            \E start \in 0..Len(sigWords) :
               /\ start + Len(tokens) <= Len(sigWords)
               /\ tokens = SubSeq(sigWords, start + 1, start + Len(tokens))
    IN
        IsCall =>
          \A m \in {findTextInPage(dom, result'.quote, "keyPhrase")},
             sigWords \in {getSignificantWords(result'.quote)} :
             /\ m # Thrown
             /\ m # Null =>
                   /\ Len(split(m.text)) \in keyPhraseMinCount..keyPhraseMaxCount
                   /\ IsWindowOf(split(m.text), sigWords)
    ]_vars

\* ------------------------------------------------------------------------
\* C27. When every highlight was created with a positive duration and no
\* timer is pending, the registry is empty and no element of the document
\* carries the wrapper marker, the highlight class or the fade class.
\* ------------------------------------------------------------------------
C27_QuiescentIsClean ==
    (timers = << >> /\ \A h \in 1..Len(log) : log[h].duration > 0) =>
       /\ activeHighlights = << >>
       /\ \A n \in 1..Len(dom) :
             attached(dom, n) =>
                /\ ~dom[n].marker
                /\ dom[n].classes \cap {highlightClass, fadeClass} = {}

\* Two highlights, both created with a positive duration, and the last
\* timer has just run.
C27_Witness ==
    /\ Len(log) >= 2 /\ \A h \in 1..Len(log) : log[h].duration > 0
    /\ timers = << >> /\ result.op = "fadeDone"
    /\ activeHighlights = << >>
    /\ \E h \in 1..Len(log) : ~dom[log[h].el].marker

\* ------------------------------------------------------------------------
\* C28. In every state the registry and the document agree: every element
\* of the document with the wrapper marker or the highlight class is in the
\* registry, and every registry entry is such an element.
\* ------------------------------------------------------------------------
C28_RegistryAgreesWithDocument ==
    LET carriesHighlight(d, e) ==
            attached(d, e) /\ (d[e].marker \/ highlightClass \in d[e].classes)
    IN
    /\ \A e \in 1..Len(dom) : carriesHighlight(dom, e) => InRegistry(activeHighlights, e)
    /\ \A i \in 1..Len(activeHighlights) : carriesHighlight(dom, activeHighlights[i])

\* ------------------------------------------------------------------------
\* C29. A highlightClause call that returns false changes nothing: the
\* document, the registry and the pending timers are as before the call.
\* ------------------------------------------------------------------------
C29_FalseReturnChangesNothing ==
    [][ (IsCall /\ ~result'.ret /\ ~result'.threw) =>
          /\ dom' = dom
          /\ activeHighlights' = activeHighlights
          /\ timers' = timers ]_vars

\* A quote that no strategy finds, asked while an earlier highlight and its
\* timer are still there.
C29_Witness ==
    /\ result.op = "highlightClause" /\ ~result.ret /\ ~result.threw
    /\ Len(result.quote) >= minClauseLength
    /\ activeHighlights # << >> /\ timers # << >>
    /\ \E e \in 1..Len(dom) : marked(dom, e)

\* ------------------------------------------------------------------------
\* C30. The quote stored as the pending highlight of a new tab is sent to
\* that tab as a HIGHLIGHT_CLAUSE message at most once, and the entry is
\* gone once a send has settled or the tab is closed.
\* ------------------------------------------------------------------------
C30_PendingSentAtMostOnce ==
    /\ \A tab \in 1..Len(tabs) : Cardinality({i \in 1..Len(sentMsgs) : sentMsgs[i].tab = tab}) <= 1
    /\ \A tab \in DOMAIN pendingHighlights : tabs[tab].open

====
